---- MODULE Spec2Model ----
(***************************************************************************)
(* The useInvoiceNFT hook (src/unnamed/part_008): the client-side cache of *)
(* invoice entities (invoices, userInvoices, isLoading, error), the three  *)
(* discovery paths that fill it (fetchInvoices, fetchUserInvoices,         *)
(* fetchAllUserInvoices) and the mutations (mintInvoiceNFT, verifyInvoice, *)
(* approveInvoice), run against an external ledger.                        *)
(*                                                                         *)
(* Every async function is a task; a task advances by one step per         *)
(* awaited ledger call, each read of a loop included, and the steps of     *)
(* different tasks and of the ledger interleave as the promises of a       *)
(* single-threaded runtime do.  The hook is taken configured: readClient,  *)
(* the contract address and the abi are present.                           *)
(***************************************************************************)
EXTENDS Integers, Sequences, FiniteSets, TLC

VARIABLES
    tokens,        \* ledger: tokenId -> historical record (1..n, n = #minted)
    latestBlock,   \* ledger: current block number
    txs,           \* ledger: submitted transactions, hash = index
    invoices,      \* useState<Invoice[]>           (line 87)
    userInvoices,  \* useState<Invoice[]>           (line 88)
    isLoading,     \* useState(false)               (line 91)
    error,         \* useState<Error | null>(null)  (line 92)
    address,       \* the hook's address parameter  (line 75)
    privyWallet,   \* address of the embedded wallet, "" if none (line 83)
    isPrivy,       \* embedded wallet present       (line 84)
    currentAddress,\* useAccount().address          (line 79)
    tasks,         \* running async calls, by slot
    returned,      \* what the most recently settled top-level call gave its caller
    ops,           \* number of top-level calls started
    faults,        \* number of ledger-call failures injected
    rejected,      \* what the ledger client rejected the mutation in flight with
    events         \* number of ledger events caused by other parties

vars == <<tokens, latestBlock, txs, invoices, userInvoices, isLoading, error,
          address, privyWallet, isPrivy, currentAddress, tasks, returned, ops, faults, rejected,
          events>>

-----------------------------------------------------------------------------
(* Bounds of the model *)
MaxOps == 2
MaxFaults == 1
MaxEvents == 1
MaxTasks == 4

(* Program constants *)
FIXED_FLOOR == 20
SAFETY_MARGIN == 5
PROBE_LIMIT == 20
FALLBACK_LIMIT == 20
LOOKBACK_BLOCKS == 1000
DIRECT_TOKEN == 7
AMOUNT_DECIMALS == 6

-----------------------------------------------------------------------------
(* Values *)
Undefined == <<>>
Some(v) == <<v>>
Truthy(o) == o # Undefined /\ o[1]

NoError == "null"

\* The value of address before the component is mounted
Unmounted == "unmounted"

\* Addresses come checksummed (mixed case) from the ledger; a caller may pass
\* the same account in lower case.
AddrA == "0xAa"
AddrB == "0xBb"
AddrC == "0xCc"
toLowerCase(a) ==
    CASE a = "0xAa" -> "0xaa"
      [] a = "0xBb" -> "0xbb"
      [] a = "0xCc" -> "0xcc"
      [] OTHER -> a

UserAddrs == {AddrA, AddrB}
Suppliers == {AddrA, AddrB}

\* The clock, in epoch milliseconds, scaled down to fit the checker's integers:
\* a "day" is 1001 ms, so that due dates are not whole seconds
Now == 1000 * 1000
DAY_MS == 1000 + 1

Max(a, b) == IF a >= b THEN a ELSE b
Pow10(n) == IF n = 6 THEN 1000000 ELSE 1

\* parseAmount(amount, 6): whole units to 6-decimal fixed point.
parseAmount(amount, decimals) == amount * Pow10(decimals)

\* BigInt(Math.floor(dueDate.getTime() / 1000))
dueDateTimestamp(dueDateMs) == dueDateMs \div 1000

\* new Date(Number(seconds) * 1000), as epoch milliseconds
ToDate(seconds) == seconds * 1000

\* BigInt(tokenId) of a decimal string
MaxId == 30
BigInt(s) == CHOOSE n \in 0..MaxId : ToString(n) = s

-----------------------------------------------------------------------------
(* The ledger (Ledger Client boundary, spec section 4.1) *)

Record(id, invoiceId, supplier, buyer, creditAmount, dueDate, block) ==
    [tokenId |-> id, invoiceId |-> invoiceId, supplier |-> supplier, buyer |-> buyer,
     creditAmount |-> creditAmount, dueDate |-> dueDate, ipfsHash |-> "ipfs",
     isVerified |-> FALSE, mintTime |-> block, burnTime |-> 0,
     isBurned |-> FALSE, burnReason |-> "", mintBlock |-> block]

\* The ledger before the hook is mounted: n0 tokens minted, one per block;
\* tokens 1 and 21 belong to account A, token 7 to account B, the others to a
\* third party.
GenesisSupplier(id) ==
    CASE id \in {1, 21} -> AddrA
      [] id = 7 -> AddrB
      [] OTHER -> AddrC
GenesisToken(id) ==
    Record(id, "G" \o ToString(id), GenesisSupplier(id), AddrB,
           parseAmount(100, AMOUNT_DECIMALS), dueDateTimestamp(Now + 30 * DAY_MS), id)

InitSupplies == {0, 7, 21}
SmallSupplies == {0, 7}

Exists(id) == id \in DOMAIN tokens
Alive(id) == Exists(id) /\ ~tokens[id].isBurned

\* readTotalCount(): the number of tokens in circulation
totalSupplyOf(tk) == Cardinality({id \in DOMAIN tk : ~tk[id].isBurned})

\* readEntity(tokenId) -> Entity | notFound; failed: the ids whose read fails now
RawInvoice(r) ==
    [invoiceId |-> r.invoiceId, supplier |-> r.supplier, buyer |-> r.buyer,
     creditAmount |-> r.creditAmount, dueDate |-> r.dueDate, ipfsHash |-> r.ipfsHash,
     isVerified |-> r.isVerified]

getInvoiceDetailsOk(id, failed) == Alive(id) /\ id \notin failed
getInvoiceDetails(id) == RawInvoice(tokens[id])

\* readHistoricalEntity(tokenId): works for burned tokens too
getHistoricalOk(id, failed) == Exists(id) /\ id \notin failed
getHistoricalInvoiceRecord(id) == [f \in DOMAIN tokens[id] \ {"mintBlock"} |-> tokens[id][f]]

\* readOwnerTokenIds(owner): every token the owner ever minted, ascending
RECURSIVE Ascending(_)
Ascending(S) ==
    IF S = {} THEN <<>>
    ELSE LET m == CHOOSE x \in S : \A y \in S : x <= y
         IN  <<m>> \o Ascending(S \ {m})

NumMinted == Cardinality(DOMAIN tokens)

getUserMintedTokens(owner) ==
    Ascending({id \in DOMAIN tokens :
                 toLowerCase(tokens[id].supplier) = toLowerCase(owner)})

\* readEventsInRange(InvoiceMinted, fromBlock, latest, supplier?): the token ids
\* of the mint events in the range; owner = Undefined for the unfiltered query
getLogs(fromBlock, owner) ==
    Ascending({id \in DOMAIN tokens :
                 /\ tokens[id].mintBlock >= fromBlock
                 /\ (owner = Undefined
                      \/ toLowerCase(tokens[id].supplier) = toLowerCase(owner[1]))})

-----------------------------------------------------------------------------
(* Entity mappings: ledger record -> cached Invoice, one per call site *)

Invoice(tokenId, d, isBurned, burnTime, burnReason) ==
    [id |-> ToString(tokenId), invoiceId |-> d.invoiceId, supplier |-> d.supplier,
     buyer |-> d.buyer, creditAmount |-> ToString(d.creditAmount),
     dueDate |-> ToDate(d.dueDate), ipfsHash |-> d.ipfsHash,
     isVerified |-> d.isVerified,
     isBurned |-> isBurned, burnTime |-> burnTime, burnReason |-> burnReason]

\* fetchInvoices, lines 131-140
InvoiceOfProbe(tokenId, d) == Invoice(tokenId, d, Undefined, Undefined, Undefined)
\* fetchUserInvoices event loop, lines 269-278
InvoiceOfEvent(tokenId, d) == Invoice(tokenId, d, Undefined, Undefined, Undefined)
\* fetchUserInvoices direct read of token 7, lines 299-308
InvoiceOfDirect(d) == Invoice(DIRECT_TOKEN, d, Undefined, Undefined, Undefined)
\* mutant: the fallback stores the supplier address in lower case
InvoiceOfFallbackLower(tokenId, d) ==
    [Invoice(tokenId, d, Undefined, Undefined, Undefined)
       EXCEPT !.supplier = toLowerCase(d.supplier)]
\* fetchUserInvoices fallback, lines 356-365
InvoiceOfFallback(tokenId, d) == Invoice(tokenId, d, Undefined, Undefined, Undefined)
\* mutant: the due date is kept in seconds
InvoiceOfHistoricalSeconds(tokenId, r) ==
    [Invoice(tokenId, r, Some(r.isBurned), Undefined, Some(r.burnReason))
       EXCEPT !.dueDate = r.dueDate]
\* fetchAllUserInvoices, lines 423-436
InvoiceOfHistorical(tokenId, r) ==
    Invoice(tokenId, r, Some(r.isBurned),
            IF r.burnTime # 0 THEN Some(ToDate(r.burnTime)) ELSE Undefined,
            Some(r.burnReason))

\* Math.max(Number(totalSupply) + 5, 20); ts = Undefined when the read threw
maxTokensToCheck(ts) ==
    Max((IF ts = Undefined THEN 0 ELSE ts[1]) + SAFETY_MARGIN, FIXED_FLOOR)

\* fetchInvoices, the body of the probe loop (lines 120-145): one awaited read,
\* pushed when it answers the record of a live token
ProbeRead(tokenId, failed) ==
    IF getInvoiceDetailsOk(tokenId, failed)
    THEN <<InvoiceOfProbe(tokenId, getInvoiceDetails(tokenId))>>
    ELSE <<>>

\* mutant: the first failed point read ends the loop
ContinueAborts(c, last, failed) ==
    IF failed = {} THEN c + 1 ELSE last + 1
\* The loops over ids, events and minted tokens keep their try/catch inside the
\* body (lines 121-145, 253-282, 347-370, 414-440): after element c, read or
\* failed, the loop goes on with element c + 1, up to the last
Continue(c, last, failed) == c + 1

\* fetchUserInvoices, the body of the event loop (lines 252-283)
EventRead(tokenId, failed) ==
    IF getInvoiceDetailsOk(tokenId, failed)
    THEN <<InvoiceOfEvent(tokenId, getInvoiceDetails(tokenId))>>
    ELSE <<>>

\* fetchUserInvoices: the direct read of token 7, appended unless already there
DirectCheck(acc, userAddress, failed) ==
    IF /\ getInvoiceDetailsOk(DIRECT_TOKEN, failed)
       /\ getInvoiceDetails(DIRECT_TOKEN).supplier = userAddress
       /\ ~\E k \in 1..Len(acc) : acc[k].id = "7"
    THEN Append(acc, InvoiceOfDirect(getInvoiceDetails(DIRECT_TOKEN)))
    ELSE acc

\* const fromBlock = latestBlock > 1000n ? latestBlock - 1000n : 0n
fromBlockOf(latest) == IF latest > LOOKBACK_BLOCKS THEN latest - LOOKBACK_BLOCKS ELSE 0

\* fetchUserInvoices fallback, the body of the loop (lines 346-371): one awaited
\* read, pushed when the supplier is the user (any case)
FallbackRead(tokenId, userAddress, failed) ==
    IF /\ getInvoiceDetailsOk(tokenId, failed)
       /\ toLowerCase(getInvoiceDetails(tokenId).supplier) = toLowerCase(userAddress)
    THEN <<InvoiceOfFallback(tokenId, getInvoiceDetails(tokenId))>>
    ELSE <<>>

\* mutant: burned tokens are left out of the historical view
HistoricalReadSkipsBurned(tokenId, failed) ==
    IF /\ getHistoricalOk(tokenId, failed)
       /\ ~getHistoricalInvoiceRecord(tokenId).isBurned
    THEN <<InvoiceOfHistorical(tokenId, getHistoricalInvoiceRecord(tokenId))>>
    ELSE <<>>
\* fetchAllUserInvoices, the body of the loop (lines 413-441): one awaited read,
\* pushed when the record has a tokenId
HistoricalRead(tokenId, failed) ==
    IF /\ getHistoricalOk(tokenId, failed)
       /\ getHistoricalInvoiceRecord(tokenId).tokenId # 0
    THEN <<InvoiceOfHistorical(tokenId, getHistoricalInvoiceRecord(tokenId))>>
    ELSE <<>>

-----------------------------------------------------------------------------
(* Tasks: the async calls in flight *)

NoMint == [supplier |-> "", uniqueId |-> "", amount |-> 0, dueDate |-> 0]

Idle == [op |-> "idle", pc |-> "idle", stack |-> <<>>, user |-> "", tokenId |-> "",
         mint |-> NoMint, maxCheck |-> 0, fromBlock |-> 0, logs |-> <<>>, cursor |-> 0,
         acc |-> <<>>, tx |-> 0, err |-> NoError,
         sims |-> 0, writes |-> 0, outcomes |-> <<>>, args |-> <<>>, value |-> <<>>]

NoReturn == [op |-> "none", ok |-> TRUE, user |-> "", tokenId |-> "", mint |-> NoMint,
             tx |-> 0, err |-> NoError, sims |-> 0, writes |-> 0, outcomes |-> <<>>]

\* The outcome of one group of ledger reads: did the range / count / listing
\* call throw, and which point reads failed
Outcome(threw, failed) == [threw |-> threw, failed |-> failed]

\* What a settled call gives its caller: ok = resolved, ~ok = threw err
Settled(t, ok, err) ==
    [op |-> t.op, ok |-> ok, user |-> t.user, tokenId |-> t.tokenId, mint |-> t.mint,
     tx |-> t.tx, err |-> err, sims |-> t.sims, writes |-> t.writes,
     outcomes |-> t.outcomes]

Slots == 1..MaxTasks
FreeSlots == {i \in Slots : tasks[i].op = "idle"}
FirstFree(S) == CHOOSE i \in S : \A j \in S : i <= j

Hook == [invoices |-> invoices, userInvoices |-> userInvoices,
         isLoading |-> isLoading, error |-> error]

\* One step's result: the task's next state, the hook's state, what was returned
SetHook(i, t, h, r) ==
    /\ tasks' = [tasks EXCEPT ![i] = t]
    /\ invoices' = h.invoices
    /\ userInvoices' = h.userInvoices
    /\ isLoading' = h.isLoading
    /\ error' = h.error
    /\ returned' = r

\* fetchInvoices(userAddress) up to its first await (lines 94-108)
EnterFetchInvoices(t, userAddress, cont) ==
    [t EXCEPT !.pc = "fi:supply", !.user = userAddress, !.acc = <<>>, !.cursor = 1,
              !.stack = <<cont>>]

\* fetchUserInvoices(userAddress) up to its first await (lines 215-226)
EnterFetchUserInvoices(t, userAddress, cont) ==
    [t EXCEPT !.pc = "fu:block", !.user = userAddress, !.acc = <<>>, !.err = NoError,
              !.logs = <<>>, !.cursor = 1, !.stack = <<cont>>]

\* fetchAllUserInvoices(userAddress) up to its first await (lines 391-401)
EnterFetchAllUserInvoices(t, userAddress, cont) ==
    [t EXCEPT !.pc = "fa:list", !.user = userAddress, !.acc = <<>>,
              !.logs = <<>>, !.cursor = 1, !.stack = <<cont>>]
LoadingStarted(h) == [h EXCEPT !.isLoading = TRUE, !.error = NoError]

\* finally { setIsLoading(false) }
LoadingDone(h) == [h EXCEPT !.isLoading = FALSE]

\* A mutation resolves: toast, return hash, finally (lines 483-484, 502-503,
\* 535-536, 553-554, 652, 509-511)
MutationResolves(i, t, h) ==
    SetHook(i, Idle, LoadingDone(h), Settled(t, TRUE, NoError))

\* mutant: the failure handler throws a new error of its own and empties the
\* entity list
MutationThrowsClears(i, t, h, err) ==
    SetHook(i, Idle, [h EXCEPT !.error = "mutation failed", !.isLoading = FALSE,
                               !.invoices = <<>>],
            Settled(t, FALSE, "mutation failed"))
\* A mutation throws: catch { setError(err); throw err } finally (lines 504-511,
\* 555-562, 653-660)
MutationThrows(i, t, h, err) ==
    SetHook(i, Idle, [h EXCEPT !.error = err, !.isLoading = FALSE],
            Settled(t, FALSE, err))

\* A fetch returns to whoever awaited it; h is the hook's state at the return
FetchReturns(i, t, h) ==
    LET cont == Head(t.stack) IN
    CASE cont = "done" ->
           SetHook(i, Idle, h, Settled(t, TRUE, NoError))
      [] cont = "mint:afterFetchInvoices" ->
           \* await fetchUserInvoices(...) (lines 481, 500)
           SetHook(i, EnterFetchUserInvoices(t, t.user, "mint:afterFetchUserInvoices"),
                   LoadingStarted(h), returned)
      [] cont = "mint:afterFetchUserInvoices" -> MutationResolves(i, t, h)
      [] cont = "verify:afterFetchInvoices" -> MutationResolves(i, t, h)

LedgerUnchanged == UNCHANGED <<tokens, latestBlock, txs, events>>
ConfigUnchanged == UNCHANGED <<address, privyWallet, isPrivy, currentAddress>>
\* no call of a mutation is rejected by the ledger client in this step
ClientUnchanged == UNCHANGED rejected

\* The ids whose point read may fail transiently: the tokens of the app's users
FaultIds == {id \in DOMAIN tokens : tokens[id].supplier \in Suppliers}
FaultSets == {F \in SUBSET FaultIds : Cardinality(F) <= MaxFaults - faults}
MayFail == faults < MaxFaults

\* the outcomes of one awaited point read: it answers, or it throws
ReadFails(tokenId) == {F \in FaultSets : F \subseteq {tokenId}}

\* a failed point read is recorded with the group of reads it belongs to
WithFailed(outcomes, failed) ==
    [outcomes EXCEPT ![Len(outcomes)].failed = @ \cup failed]

-----------------------------------------------------------------------------
(* Initial state: a ledger with n0 tokens, the hook constructed (useState
   initial values) and not yet mounted: the effect has not run *)

InitWith(supplies, wallets) ==
    /\ \E n0 \in supplies :
         /\ tokens = [id \in 1..n0 |-> GenesisToken(id)]
         /\ latestBlock = n0
    /\ txs = <<>>
    /\ invoices = <<>>
    /\ userInvoices = <<>>
    /\ isLoading = FALSE
    /\ error = NoError
    /\ address = Unmounted
    /\ privyWallet \in wallets
    /\ isPrivy = (privyWallet # "")
    /\ currentAddress = AddrA
    /\ tasks = [i \in Slots |-> Idle]
    /\ returned = NoReturn
    /\ ops = 0
    /\ faults = 0
    /\ rejected = NoError
    /\ events = 0

Wallets == {"", AddrB}
Init == InitWith(InitSupplies, Wallets)
InitSmall == InitWith(SmallSupplies, Wallets)
\* The discovery paths and the queries do not read the wallet
InitSync == InitWith(InitSupplies, {""})
InitPaths == InitWith(SmallSupplies, {""})
\* A ledger that holds tokens of both users
InitMut == InitWith({7}, Wallets)

-----------------------------------------------------------------------------
(* Discovery: fetchInvoices (lines 94-213) *)

\* useEffect on [address, fetchInvoices, fetchUserInvoices] (lines 811-818): it
\* runs when the component is mounted and whenever address changes; both
\* fetches are started, not awaited.  The run on mount is not counted as a call.
AddressEffect(a) ==
    /\ a # address
    /\ address = Unmounted \/ ops < MaxOps
    /\ address' = a
    /\ ops' = IF address = Unmounted THEN ops ELSE ops + 1
    /\ IF a # ""
       THEN /\ Cardinality(FreeSlots) >= 2
            /\ LET i == FirstFree(FreeSlots)
                   j == FirstFree(FreeSlots \ {i})
               IN  tasks' = [tasks EXCEPT
                     ![i] = EnterFetchInvoices([Idle EXCEPT !.op = "fetchInvoices"], a, "done"),
                     ![j] = EnterFetchUserInvoices([Idle EXCEPT !.op = "fetchUserInvoices"], a, "done")]
            /\ isLoading' = TRUE
            /\ error' = NoError
       ELSE /\ error' = "Effect: missing address, not fetching invoices."
            /\ UNCHANGED <<tasks, isLoading>>
    /\ UNCHANGED <<invoices, userInvoices, returned, privyWallet, isPrivy, currentAddress, faults>>
    /\ LedgerUnchanged /\ ClientUnchanged

Mounted == address # Unmounted
AllIdle == \A i \in Slots : tasks[i].op = "idle"

\* A caller of the hook starts fetchInvoices(userAddress)
CallFetchInvoices(a) ==
    /\ ops < MaxOps
    /\ FreeSlots # {}
    /\ ops' = ops + 1
    /\ tasks' = [tasks EXCEPT ![FirstFree(FreeSlots)] =
                   EnterFetchInvoices([Idle EXCEPT !.op = "fetchInvoices"], a, "done")]
    /\ UNCHANGED <<invoices, userInvoices, isLoading, error, returned, faults>>
    /\ LedgerUnchanged /\ ConfigUnchanged /\ ClientUnchanged

\* await readContract totalSupply, caught (lines 102-114)
FetchInvoicesSupply(i) ==
    /\ tasks[i].pc = "fi:supply"
    /\ \E threw \in {FALSE, MayFail} :
         /\ faults' = faults + (IF threw THEN 1 ELSE 0)
         /\ tasks' = [tasks EXCEPT ![i].pc = "fi:reads",
                        ![i].maxCheck = maxTokensToCheck(IF threw THEN Undefined
                                                         ELSE Some(totalSupplyOf(tokens))),
                        ![i].outcomes = Append(@, Outcome(threw, {}))]
    /\ UNCHANGED <<invoices, userInvoices, isLoading, error, returned, ops>>
    /\ LedgerUnchanged /\ ConfigUnchanged /\ ClientUnchanged

\* one turn of the probe loop (lines 116-146): the awaited read of tokenId
FetchInvoicesReads(i) ==
    /\ tasks[i].pc = "fi:reads"
    /\ LET tokenId == tasks[i].cursor
       IN  \E failed \in ReadFails(tokenId) :
             /\ faults' = faults + Cardinality(failed)
             /\ tasks' = [tasks EXCEPT
                   ![i].pc = IF Continue(tokenId, PROBE_LIMIT, failed) <= PROBE_LIMIT
                             THEN "fi:reads" ELSE "fi:commit",
                   ![i].cursor = Continue(tokenId, PROBE_LIMIT, failed),
                   ![i].acc = @ \o ProbeRead(tokenId, failed),
                   ![i].outcomes = WithFailed(@, failed)]
    /\ UNCHANGED <<invoices, userInvoices, isLoading, error, returned, ops>>
    /\ LedgerUnchanged /\ ConfigUnchanged /\ ClientUnchanged

\* mutant: an empty result is reported as an error
fetchInvoicesReportsEmpty(t, h) ==
    [h EXCEPT !.invoices = t.acc,
              !.error = IF t.acc = <<>> THEN "no invoices found" ELSE NoError]
\* setInvoices(invoicesArr); setError(null) (lines 148-157)
fetchInvoicesResult(t, h) == [h EXCEPT !.invoices = t.acc, !.error = NoError]

FetchInvoicesCommit(i) ==
    /\ tasks[i].pc = "fi:commit"
    /\ FetchReturns(i, tasks[i], fetchInvoicesResult(tasks[i], Hook))
    /\ UNCHANGED <<ops, faults>>
    /\ LedgerUnchanged /\ ConfigUnchanged /\ ClientUnchanged

-----------------------------------------------------------------------------
(* Discovery: fetchUserInvoices (lines 215-388) *)

CallFetchUserInvoices(a) ==
    /\ ops < MaxOps
    /\ FreeSlots # {}
    /\ ops' = ops + 1
    /\ tasks' = [tasks EXCEPT ![FirstFree(FreeSlots)] =
                   EnterFetchUserInvoices([Idle EXCEPT !.op = "fetchUserInvoices"], a, "done")]
    /\ isLoading' = TRUE
    /\ error' = NoError
    /\ UNCHANGED <<invoices, userInvoices, returned, faults>>
    /\ LedgerUnchanged /\ ConfigUnchanged /\ ClientUnchanged

\* a range call threw: catch (err), the fallback loop starts (lines 337-346)
ToFallback(t, err) ==
    [t EXCEPT !.pc = "fu:fallback", !.err = err, !.acc = <<>>, !.cursor = 1,
              !.outcomes = Append(@, Outcome(TRUE, {}))]

\* const latestBlock = await readClient.getBlockNumber(); fromBlock (lines 226-228)
FetchUserInvoicesBlock(i) ==
    /\ tasks[i].pc = "fu:block"
    /\ \/ /\ MayFail
          /\ faults' = faults + 1
          /\ tasks' = [tasks EXCEPT ![i] = ToFallback(@, "getBlockNumber failed")]
       \/ /\ tasks' = [tasks EXCEPT ![i].pc = "fu:logs",
                                    ![i].fromBlock = fromBlockOf(latestBlock)]
          /\ UNCHANGED faults
    /\ UNCHANGED <<invoices, userInvoices, isLoading, error, returned, ops>>
    /\ LedgerUnchanged /\ ConfigUnchanged /\ ClientUnchanged

\* const logs = await readClient.getLogs({ ..., fromBlock }) (lines 230-246)
FetchUserInvoicesLogs(i) ==
    /\ tasks[i].pc = "fu:logs"
    /\ \/ /\ MayFail
          /\ faults' = faults + 1
          /\ tasks' = [tasks EXCEPT ![i] = ToFallback(@, "getLogs failed")]
       \/ /\ LET logs == getLogs(tasks[i].fromBlock, Some(tasks[i].user))
             IN  tasks' = [tasks EXCEPT
                   ![i].pc = IF logs = <<>> THEN "fu:direct" ELSE "fu:scan",
                   ![i].logs = logs, ![i].cursor = 1,
                   ![i].outcomes = Append(@, Outcome(FALSE, {}))]
          /\ UNCHANGED faults
    /\ UNCHANGED <<invoices, userInvoices, isLoading, error, returned, ops>>
    /\ LedgerUnchanged /\ ConfigUnchanged /\ ClientUnchanged

\* one turn of the event loop (lines 252-283): the awaited read of logs[cursor]
FetchUserInvoicesScan(i) ==
    /\ tasks[i].pc = "fu:scan"
    /\ LET logs == tasks[i].logs
           c == tasks[i].cursor
       IN  \E failed \in ReadFails(logs[c]) :
             /\ faults' = faults + Cardinality(failed)
             /\ tasks' = [tasks EXCEPT
                   ![i].pc = IF Continue(c, Len(logs), failed) <= Len(logs)
                             THEN "fu:scan" ELSE "fu:direct",
                   ![i].cursor = Continue(c, Len(logs), failed),
                   ![i].acc = @ \o EventRead(logs[c], failed),
                   ![i].outcomes = WithFailed(@, failed)]
    /\ UNCHANGED <<invoices, userInvoices, isLoading, error, returned, ops>>
    /\ LedgerUnchanged /\ ConfigUnchanged /\ ClientUnchanged

\* the direct read of token 7 (lines 285-313)
FetchUserInvoicesDirect(i) ==
    /\ tasks[i].pc = "fu:direct"
    /\ \E failed \in ReadFails(DIRECT_TOKEN) :
         /\ faults' = faults + Cardinality(failed)
         /\ tasks' = [tasks EXCEPT ![i].pc = "fu:allLogs",
                        ![i].acc = DirectCheck(@, tasks[i].user, failed),
                        ![i].outcomes = Append(@, Outcome(FALSE, failed))]
    /\ UNCHANGED <<invoices, userInvoices, isLoading, error, returned, ops>>
    /\ LedgerUnchanged /\ ConfigUnchanged /\ ClientUnchanged

\* mutant: the result is appended to the list instead of replacing it
fetchUserInvoicesAppends(t, h, allLogsThrew) ==
    IF allLogsThrew THEN LoadingDone(h)
    ELSE LoadingDone([h EXCEPT !.userInvoices = h.userInvoices \o t.acc])
\* the unfiltered getLogs, then setUserInvoices and the finally (lines 315-336, 385-387)
fetchUserInvoicesResult(t, h, allLogsThrew) ==
    IF allLogsThrew THEN LoadingDone(h)
    ELSE LoadingDone([h EXCEPT !.userInvoices = t.acc])

FetchUserInvoicesAllLogs(i) ==
    /\ tasks[i].pc = "fu:allLogs"
    /\ \E threw \in {FALSE, MayFail} :
         /\ faults' = faults + (IF threw THEN 1 ELSE 0)
         /\ FetchReturns(i, [tasks[i] EXCEPT !.outcomes = Append(@, Outcome(threw, {}))],
                         fetchUserInvoicesResult(tasks[i], Hook, threw))
    /\ UNCHANGED ops
    /\ LedgerUnchanged /\ ConfigUnchanged /\ ClientUnchanged

\* catch: one turn of the fallback loop over ids 1..20 (lines 337-371): the
\* awaited read of tokenId
FetchUserInvoicesFallback(i) ==
    /\ tasks[i].pc = "fu:fallback"
    /\ LET tokenId == tasks[i].cursor
       IN  \E failed \in ReadFails(tokenId) :
             /\ faults' = faults + Cardinality(failed)
             /\ tasks' = [tasks EXCEPT
                   ![i].pc = IF Continue(tokenId, FALLBACK_LIMIT, failed) <= FALLBACK_LIMIT
                             THEN "fu:fallback" ELSE "fu:fallbackCommit",
                   ![i].cursor = Continue(tokenId, FALLBACK_LIMIT, failed),
                   ![i].acc = @ \o FallbackRead(tokenId, tasks[i].user, failed),
                   ![i].outcomes = IF tokenId = 1 THEN Append(@, Outcome(FALSE, failed))
                                   ELSE WithFailed(@, failed)]
    /\ UNCHANGED <<invoices, userInvoices, isLoading, error, returned, ops>>
    /\ LedgerUnchanged /\ ConfigUnchanged /\ ClientUnchanged

\* lines 373-387
fetchUserInvoicesFallbackResult(t, h) ==
    IF Len(t.acc) > 0
    THEN LoadingDone([h EXCEPT !.userInvoices = t.acc, !.error = NoError])
    ELSE LoadingDone([h EXCEPT !.error = t.err, !.userInvoices = <<>>])

FetchUserInvoicesFallbackCommit(i) ==
    /\ tasks[i].pc = "fu:fallbackCommit"
    /\ FetchReturns(i, tasks[i], fetchUserInvoicesFallbackResult(tasks[i], Hook))
    /\ UNCHANGED <<ops, faults>>
    /\ LedgerUnchanged /\ ConfigUnchanged /\ ClientUnchanged

-----------------------------------------------------------------------------
(* Discovery: fetchAllUserInvoices (lines 391-452) *)

CallFetchAllUserInvoices(a) ==
    /\ ops < MaxOps
    /\ FreeSlots # {}
    /\ ops' = ops + 1
    /\ tasks' = [tasks EXCEPT ![FirstFree(FreeSlots)] =
                   EnterFetchAllUserInvoices([Idle EXCEPT !.op = "fetchAllUserInvoices"],
                                             a, "done")]
    /\ isLoading' = TRUE
    /\ UNCHANGED <<invoices, userInvoices, error, returned, faults>>
    /\ LedgerUnchanged /\ ConfigUnchanged /\ ClientUnchanged

\* await readContract getUserMintedTokens (lines 402-408); when the listing
\* throws: catch and finally (lines 445-451)
FetchAllUserInvoicesList(i) ==
    /\ tasks[i].pc = "fa:list"
    /\ \/ /\ MayFail
          /\ faults' = faults + 1
          /\ FetchReturns(i, [tasks[i] EXCEPT !.outcomes = Append(@, Outcome(TRUE, {}))],
                LoadingDone([Hook EXCEPT !.error = "getUserMintedTokens failed",
                                         !.userInvoices = <<>>]))
       \/ /\ LET ids == getUserMintedTokens(tasks[i].user)
             IN  tasks' = [tasks EXCEPT
                   ![i].pc = IF ids = <<>> THEN "fa:commit" ELSE "fa:reads",
                   ![i].logs = ids, ![i].cursor = 1,
                   ![i].outcomes = Append(@, Outcome(FALSE, {}))]
          /\ UNCHANGED <<invoices, userInvoices, isLoading, error, returned, faults>>
    /\ UNCHANGED ops
    /\ LedgerUnchanged /\ ConfigUnchanged /\ ClientUnchanged

\* one turn of the historical loop (lines 413-441): the awaited read of the
\* record of ids[cursor]
FetchAllUserInvoicesReads(i) ==
    /\ tasks[i].pc = "fa:reads"
    /\ LET ids == tasks[i].logs
           c == tasks[i].cursor
       IN  \E failed \in ReadFails(ids[c]) :
             /\ faults' = faults + Cardinality(failed)
             /\ tasks' = [tasks EXCEPT
                   ![i].pc = IF Continue(c, Len(ids), failed) <= Len(ids)
                             THEN "fa:reads" ELSE "fa:commit",
                   ![i].cursor = Continue(c, Len(ids), failed),
                   ![i].acc = @ \o HistoricalRead(ids[c], failed),
                   ![i].outcomes = WithFailed(@, failed)]
    /\ UNCHANGED <<invoices, userInvoices, isLoading, error, returned, ops>>
    /\ LedgerUnchanged /\ ConfigUnchanged /\ ClientUnchanged

\* setUserInvoices(allUserInvoices) and the finally (lines 443, 449-451)
fetchAllUserInvoicesResult(t, h) == LoadingDone([h EXCEPT !.userInvoices = t.acc])

FetchAllUserInvoicesCommit(i) ==
    /\ tasks[i].pc = "fa:commit"
    /\ FetchReturns(i, tasks[i], fetchAllUserInvoicesResult(tasks[i], Hook))
    /\ UNCHANGED <<ops, faults>>
    /\ LedgerUnchanged /\ ConfigUnchanged /\ ClientUnchanged

-----------------------------------------------------------------------------
(* The ledger's statistics (contract side of getUserInvoiceStatistics) *)

RECURSIVE SumOver(_, _)
SumOver(S, f) ==
    IF S = {} THEN 0
    ELSE LET x == CHOOSE y \in S : TRUE IN f[x] + SumOver(S \ {x}, f)

\* The ledger's statistics of an owner: over every token the owner minted
LedgerStatistics(owner) ==
    LET minted == {id \in DOMAIN tokens :
                     toLowerCase(tokens[id].supplier) = toLowerCase(owner)}
        burned == {id \in minted : tokens[id].isBurned}
    IN  [totalMinted |-> Cardinality(minted),
         totalBurned |-> Cardinality(burned),
         totalActive |-> Cardinality(minted) - Cardinality(burned),
         totalCreditAmount |-> SumOver(minted, [id \in minted |-> tokens[id].creditAmount])]

-----------------------------------------------------------------------------
(* Queries: getHistoricalInvoiceRecord (684-702), getUserInvoiceStatistics
   (705-722), searchInvoiceById (766-783), getUserHistoricalRecords (786-808).
   Each awaits one readContract and hands its result to the caller; the
   hook's state is not written.  The ledger evaluates the read when it is
   sent; the answer is delivered to the callback in a later step, and the
   ledger and the other callbacks run in between. *)

Offsets == {0, 1}
Limits == {1, 10}

\* the ledger's paginated listing of an owner's historical records
RECURSIVE RecordsOf(_)
RecordsOf(ids) ==
    IF ids = <<>> THEN <<>>
    ELSE <<getHistoricalInvoiceRecord(Head(ids))>> \o RecordsOf(Tail(ids))

LedgerHistoricalPage(owner, offset, limit) ==
    LET all == RecordsOf(getUserMintedTokens(owner))
        last == IF Len(all) <= offset + limit THEN Len(all) ELSE offset + limit
    IN  SubSeq(all, offset + 1, last)

\* the ledger's search by business id: the tokens carrying that invoiceId
LedgerSearch(invoiceId) == {id \in DOMAIN tokens : tokens[id].invoiceId = invoiceId}
InvoiceIds == {tokens[id].invoiceId : id \in DOMAIN tokens}

\* what a query gives its caller: value = the result read, Undefined for null
QueryReturn(op, a, tokenId, threw, value) ==
    [op |-> op, ok |-> TRUE, user |-> a, tokenId |-> tokenId, mint |-> NoMint,
     tx |-> 0, err |-> NoError, sims |-> 0, writes |-> 0,
     outcomes |-> <<Outcome(threw, {})>>, value |-> value]

\* How the ledger may answer the readContract of query t in the current
\* state: with the value read, or (a transient failure) by throwing
LedgerAnswers(t) ==
    LET values ==
          CASE t.op = "getUserInvoiceStatistics" -> {LedgerStatistics(t.user)}
            [] t.op = "getHistoricalInvoiceRecord" ->
                 {getHistoricalInvoiceRecord(BigInt(t.tokenId))}
            [] t.op = "searchInvoiceById" ->
                 {getHistoricalInvoiceRecord(id) : id \in LedgerSearch(t.tokenId)}
            [] t.op = "getUserHistoricalRecords" ->
                 {LedgerHistoricalPage(t.user, t.args[1], t.args[2])}
    IN  {[t EXCEPT !.pc = "q:answered", !.value = Some(v),
                   !.outcomes = <<Outcome(FALSE, {})>>] : v \in values}
        \cup (IF MayFail
              THEN {[t EXCEPT !.pc = "q:answered", !.outcomes = <<Outcome(TRUE, {})>>]}
              ELSE {})

\* A query is called and runs to its await (lines 690, 711, 772, 796): the
\* read is sent and the ledger evaluates it
Query(t) ==
    /\ ops < MaxOps
    /\ FreeSlots # {}
    /\ ops' = ops + 1
    /\ \E answered \in LedgerAnswers(t) :
         /\ tasks' = [tasks EXCEPT ![FirstFree(FreeSlots)] = answered]
         /\ faults' = faults + (IF answered.outcomes[1].threw THEN 1 ELSE 0)
    /\ UNCHANGED <<invoices, userInvoices, isLoading, error, returned>>
    /\ LedgerUnchanged /\ ConfigUnchanged /\ ClientUnchanged

\* The answer is delivered: return the value read / catch: return null, or []
\* for getUserHistoricalRecords (lines 697-701, 717-721, 778-782, 803-807)
QueryDelivers(i) ==
    /\ tasks[i].pc = "q:answered"
    /\ LET t == tasks[i]
           threw == t.outcomes[1].threw
           onThrow == IF t.op = "getUserHistoricalRecords" THEN Some(<<>>) ELSE Undefined
       IN  returned' = QueryReturn(t.op, t.user, t.tokenId, threw,
                                   IF threw THEN onThrow ELSE t.value)
    /\ tasks' = [tasks EXCEPT ![i] = Idle]
    /\ UNCHANGED <<invoices, userInvoices, isLoading, error, ops, faults>>
    /\ LedgerUnchanged /\ ConfigUnchanged /\ ClientUnchanged

\* getUserInvoiceStatistics(userAddress)
GetUserInvoiceStatistics(a) ==
    Query([Idle EXCEPT !.op = "getUserInvoiceStatistics", !.user = a])

\* getHistoricalInvoiceRecord(tokenId)
GetHistoricalInvoiceRecord(id) ==
    /\ Exists(id)
    /\ Query([Idle EXCEPT !.op = "getHistoricalInvoiceRecord", !.tokenId = ToString(id)])

\* searchInvoiceById(invoiceId)
SearchInvoiceById(invoiceId) ==
    Query([Idle EXCEPT !.op = "searchInvoiceById", !.tokenId = invoiceId])

\* getUserHistoricalRecords(userAddress, offset, limit)
GetUserHistoricalRecords(a, offset, limit) ==
    Query([Idle EXCEPT !.op = "getUserHistoricalRecords", !.user = a,
                       !.args = <<offset, limit>>])

-----------------------------------------------------------------------------
(* Mutations: mintInvoiceNFT (455-512), verifyInvoice (515-563),
   approveInvoice (632-661) *)

FutureDue == Now + 30 * DAY_MS
PastDue == Now - DAY_MS

MintInputs ==
    { [supplier |-> AddrA, uniqueId |-> "INV-A", amount |-> 100, dueDate |-> FutureDue],
      [supplier |-> AddrB, uniqueId |-> "INV-B", amount |-> 100, dueDate |-> FutureDue],
      [supplier |-> AddrA, uniqueId |-> "",      amount |-> 0,   dueDate |-> PastDue] }

\* The token ids a caller passes to verify / approve: those of the users' tokens
TargetIds == {ToString(id) : id \in FaultIds}

\* The write call a mutation encodes (lines 468-472, 489-495, 520-524, 541-547, 641-647)
WriteCall(t) ==
    [kind |-> t.op,
     supplier |-> t.mint.supplier, invoiceId |-> t.mint.uniqueId,
     creditAmount |-> parseAmount(t.mint.amount, AMOUNT_DECIMALS),
     dueDate |-> dueDateTimestamp(t.mint.dueDate),
     tokenId |-> IF t.op = "mint" THEN 0 ELSE BigInt(t.tokenId),
     status |-> "pending", applied |-> FALSE]

\* Would the ledger revert the call now?  (simulateContract throws if so)
WouldRevert(call) == call.kind # "mint" /\ ~Alive(call.tokenId)

\* try { setIsLoading(true); setError(null); ... (lines 462-467, 516-519, 633-640)
StartMutation(t, firstPc) ==
    /\ ops < MaxOps
    /\ FreeSlots # {}
    /\ ops' = ops + 1
    /\ tasks' = [tasks EXCEPT ![FirstFree(FreeSlots)] = [t EXCEPT !.pc = firstPc]]
    /\ isLoading' = TRUE
    /\ error' = NoError
    /\ rejected' = NoError
    /\ UNCHANGED <<invoices, userInvoices, returned, faults>>
    /\ LedgerUnchanged /\ ConfigUnchanged

CallMint(m) ==
    StartMutation([Idle EXCEPT !.op = "mint", !.mint = m],
                  IF isPrivy THEN "execute" ELSE "simulate")

CallVerify(tokenId) ==
    StartMutation([Idle EXCEPT !.op = "verify", !.tokenId = tokenId],
                  IF isPrivy THEN "send" ELSE "simulate")

CallApprove(tokenId) ==
    StartMutation([Idle EXCEPT !.op = "approve", !.tokenId = tokenId], "simulate")

\* await publicClient.simulateContract(...) (lines 489-495, 541-547, 641-647)
Simulate(i) ==
    /\ tasks[i].pc = "simulate"
    /\ LET t == [tasks[i] EXCEPT !.sims = @ + 1] IN
       \/ /\ ~WouldRevert(WriteCall(t))
          /\ tasks' = [tasks EXCEPT ![i] = [t EXCEPT !.pc = "write"]]
          /\ UNCHANGED <<invoices, userInvoices, isLoading, error, returned, faults>>
          /\ ClientUnchanged
       \/ /\ WouldRevert(WriteCall(t)) \/ MayFail
          /\ faults' = faults + (IF WouldRevert(WriteCall(t)) THEN 0 ELSE 1)
          /\ rejected' = "simulateContract failed"
          /\ MutationThrows(i, t, Hook, rejected')
    /\ UNCHANGED ops
    /\ LedgerUnchanged /\ ConfigUnchanged

\* What the wallet rejects a submission with, and what the receipt wait
\* rejects with for a transaction that was dropped
SubmitRejections == {"submission rejected", "insufficient funds"}
ReceiptRejections == {"transaction failed", "receipt timeout"}

\* mutant: a rejected submission is submitted again
SubmitRetries(i) ==
    /\ tasks[i].pc \in {"write", "execute", "send"}
    /\ LET t == [tasks[i] EXCEPT !.writes = @ + 1] IN
       \/ /\ txs' = Append(txs, WriteCall(t))
          /\ tasks' = [tasks EXCEPT ![i] =
                [t EXCEPT !.tx = Len(txs) + 1,
                          !.pc = IF t.pc = "execute" THEN "executed" ELSE "wait"]]
          /\ UNCHANGED faults
          /\ ClientUnchanged
       \/ /\ MayFail
          /\ faults' = faults + 1
          /\ rejected' \in SubmitRejections
          /\ tasks' = [tasks EXCEPT ![i] = t]
          /\ UNCHANGED txs
    /\ UNCHANGED <<invoices, userInvoices, isLoading, error, returned>>
    /\ UNCHANGED <<ops, tokens, latestBlock, events>>
    /\ ConfigUnchanged
\* The write submission: walletClient.writeContract (496, 548, 649),
\* executeTransaction (473-478), sendTransaction (525-530)
Submit(i) ==
    /\ tasks[i].pc \in {"write", "execute", "send"}
    /\ LET t == [tasks[i] EXCEPT !.writes = @ + 1] IN
       \/ /\ txs' = Append(txs, WriteCall(t))
          /\ tasks' = [tasks EXCEPT ![i] =
                [t EXCEPT !.tx = Len(txs) + 1,
                          !.pc = IF t.pc = "execute" THEN "executed" ELSE "wait"]]
          /\ UNCHANGED <<invoices, userInvoices, isLoading, error, returned, faults>>
          /\ ClientUnchanged
       \/ /\ MayFail
          /\ faults' = faults + 1
          /\ rejected' \in SubmitRejections
          /\ MutationThrows(i, t, Hook, rejected')
          /\ UNCHANGED txs
    /\ UNCHANGED <<ops, tokens, latestBlock, events>>
    /\ ConfigUnchanged

\* mutant: a mint writes the entity it expects into the cache from its own
\* request instead of reading the ledger
ResyncPredicts(i, t, h) ==
    IF t.op = "mint"
    THEN MutationResolves(i, t, [h EXCEPT !.invoices = Append(@,
           Invoice(NumMinted + 1,
                   [invoiceId |-> t.mint.uniqueId, supplier |-> t.mint.supplier,
                    buyer |-> AddrB,
                    creditAmount |-> parseAmount(t.mint.amount, AMOUNT_DECIMALS),
                    dueDate |-> dueDateTimestamp(t.mint.dueDate),
                    ipfsHash |-> "ipfs", isVerified |-> FALSE],
                   Undefined, Undefined, Undefined))])
    ELSE IF t.op = "verify"
    THEN SetHook(i, EnterFetchInvoices(t, IF isPrivy THEN privyWallet ELSE currentAddress,
                                       "verify:afterFetchInvoices"),
                 h, returned)
    ELSE MutationResolves(i, t, h)
\* After the awaited receipt: the resync the mutation awaits before it returns
\* (lines 479-482, 498-501, 532-534, 550-552), for the supplier, the embedded
\* wallet or the connected account, skipped when that address is missing;
\* approve has none (line 652)
Resync(i, t, h) ==
    CASE t.op = "mint" ->
           LET who == IF isPrivy THEN t.mint.supplier ELSE currentAddress IN
           IF who # ""
           THEN SetHook(i, EnterFetchInvoices(t, who, "mint:afterFetchInvoices"),
                        h, returned)
           ELSE MutationResolves(i, t, h)
      [] t.op = "verify" ->
           LET who == IF isPrivy THEN privyWallet ELSE currentAddress IN
           IF who # ""
           THEN SetHook(i, EnterFetchInvoices(t, who, "verify:afterFetchInvoices"),
                        h, returned)
           ELSE MutationResolves(i, t, h)
      [] t.op = "approve" -> MutationResolves(i, t, h)

\* await publicClient.waitForTransactionReceipt({ hash }) (lines 497, 531, 549,
\* 650): it resolves with the receipt of an included transaction, whose status
\* the code does not read, and rejects for a transaction that was dropped
AwaitFinal(i) ==
    /\ tasks[i].pc = "wait"
    /\ \/ /\ txs[tasks[i].tx].status \in {"mined", "reverted"}
          /\ Resync(i, tasks[i], Hook)
          /\ ClientUnchanged
       \/ /\ txs[tasks[i].tx].status = "failed"
          /\ rejected' \in ReceiptRejections
          /\ MutationThrows(i, tasks[i], Hook, rejected')
    /\ UNCHANGED <<ops, faults>>
    /\ LedgerUnchanged /\ ConfigUnchanged

\* const hash = await executeTransaction(...) resolves (line 473): the embedded
\* wallet hands back the hash of the submitted transaction
Executed(i) ==
    /\ tasks[i].pc = "executed"
    /\ \/ /\ txs[tasks[i].tx].status # "failed"
          /\ Resync(i, tasks[i], Hook)
          /\ ClientUnchanged
       \/ /\ txs[tasks[i].tx].status = "failed"
          /\ rejected' = "transaction failed"
          /\ MutationThrows(i, tasks[i], Hook, rejected')
    /\ UNCHANGED <<ops, faults>>
    /\ LedgerUnchanged /\ ConfigUnchanged

-----------------------------------------------------------------------------
(* The ledger's own steps *)

HookUnchanged == UNCHANGED <<invoices, userInvoices, isLoading, error, tasks, returned, ops>>

\* A pending transaction is included in the next block
Mine(hash) ==
    /\ txs[hash].status = "pending"
    /\ LET call == txs[hash]
           n == NumMinted + 1
       IN
       /\ latestBlock' = latestBlock + 1
       /\ IF call.kind = "mint"
          THEN /\ tokens' = [id \in 1..n |->
                    IF id < n THEN tokens[id]
                    ELSE Record(n, call.invoiceId, call.supplier, AddrB,
                                call.creditAmount, call.dueDate, latestBlock + 1)]
               /\ txs' = [txs EXCEPT ![hash].status = "mined", ![hash].tokenId = n,
                                     ![hash].applied = TRUE]
          ELSE IF ~Alive(call.tokenId)
          THEN /\ txs' = [txs EXCEPT ![hash].status = "reverted"]
               /\ UNCHANGED tokens
          ELSE /\ txs' = [txs EXCEPT ![hash].status = "mined",
                            ![hash].applied = (call.kind = "verify"
                                               /\ ~tokens[call.tokenId].isVerified)]
               /\ tokens' = IF call.kind = "verify"
                            THEN [tokens EXCEPT ![call.tokenId].isVerified = TRUE]
                            ELSE tokens
    /\ UNCHANGED <<faults, events>>
    /\ HookUnchanged /\ ConfigUnchanged /\ ClientUnchanged

\* A pending transaction is dropped from the pool
DropTx(hash) ==
    /\ txs[hash].status = "pending"
    /\ MayFail
    /\ faults' = faults + 1
    /\ txs' = [txs EXCEPT ![hash].status = "failed"]
    /\ UNCHANGED <<tokens, latestBlock, events>>
    /\ HookUnchanged /\ ConfigUnchanged /\ ClientUnchanged

\* Another party verifies a token
LedgerVerify(id) ==
    /\ events < MaxEvents
    /\ events' = events + 1
    /\ Alive(id) /\ ~tokens[id].isVerified
    /\ tokens' = [tokens EXCEPT ![id].isVerified = TRUE]
    /\ latestBlock' = latestBlock + 1
    /\ UNCHANGED <<txs, faults>>
    /\ HookUnchanged /\ ConfigUnchanged /\ ClientUnchanged

\* A token is burned (repaid or liquidated elsewhere)
LedgerBurn(id) ==
    /\ events < MaxEvents
    /\ events' = events + 1
    /\ Alive(id)
    /\ tokens' = [tokens EXCEPT ![id].isBurned = TRUE, ![id].burnTime = latestBlock + 1,
                                ![id].burnReason = "repaid"]
    /\ latestBlock' = latestBlock + 1
    /\ UNCHANGED <<txs, faults>>
    /\ HookUnchanged /\ ConfigUnchanged /\ ClientUnchanged

\* Time passes: the chain grows by more than a lookback window, so that every
\* earlier mint event is now outside the window
AdvanceBlocks ==
    /\ events < MaxEvents
    /\ events' = events + 1
    /\ latestBlock' = latestBlock + LOOKBACK_BLOCKS + 1
    /\ UNCHANGED <<tokens, txs, faults>>
    /\ HookUnchanged /\ ConfigUnchanged /\ ClientUnchanged

\* The ledger client starts to answer differently for a token: after a chain
\* reorganisation the token id belongs to a mint with another credit amount
LedgerReorg(id) ==
    /\ events < MaxEvents
    /\ events' = events + 1
    /\ Alive(id)
    /\ tokens' = [tokens EXCEPT ![id].creditAmount = parseAmount(250, AMOUNT_DECIMALS)]
    /\ UNCHANGED <<latestBlock, txs, faults>>
    /\ HookUnchanged /\ ConfigUnchanged /\ ClientUnchanged

-----------------------------------------------------------------------------
(* Next-state relations *)

\* The component is mounted: the effect runs for the address it was given
Mount == ~Mounted /\ \E a \in UserAddrs \cup {""} : AddressEffect(a)

\* The component is mounted before the wallet has connected
MountDisconnected == ~Mounted /\ AddressEffect("")

Discover ==
    \/ \E a \in UserAddrs : CallFetchInvoices(a)
    \/ \E a \in UserAddrs : CallFetchUserInvoices(a)
    \/ \E a \in UserAddrs : CallFetchAllUserInvoices(a)

Mutate ==
    \/ \E m \in MintInputs : CallMint(m)
    \/ \E id \in TargetIds : CallVerify(id)
    \/ \E id \in TargetIds : CallApprove(id)

\* The steps of the two syncs the effect and the mutations start
ResyncStep(i) ==
    \/ FetchInvoicesSupply(i)
    \/ FetchInvoicesReads(i)
    \/ FetchInvoicesCommit(i)
    \/ FetchUserInvoicesBlock(i)
    \/ FetchUserInvoicesLogs(i)
    \/ FetchUserInvoicesScan(i)
    \/ FetchUserInvoicesDirect(i)
    \/ FetchUserInvoicesAllLogs(i)
    \/ FetchUserInvoicesFallback(i)
    \/ FetchUserInvoicesFallbackCommit(i)

FetchStep(i) ==
    \/ ResyncStep(i)
    \/ FetchAllUserInvoicesList(i)
    \/ FetchAllUserInvoicesReads(i)
    \/ FetchAllUserInvoicesCommit(i)

MutationStep(i) ==
    \/ Simulate(i)
    \/ Submit(i)
    \/ AwaitFinal(i)
    \/ Executed(i)

Chain ==
    \/ \E hash \in DOMAIN txs : Mine(hash)
    \/ \E hash \in DOMAIN txs : DropTx(hash)

World ==
    \/ \E id \in FaultIds : LedgerVerify(id)
    \/ \E id \in FaultIds : LedgerBurn(id)
    \/ AdvanceBlocks

\* The discovery paths alone, started by the hook's caller and running
\* concurrently while the ledger moves; the component was mounted before the
\* wallet connected
NextSync ==
    \/ MountDisconnected
    \/ Mounted /\ Discover
    \/ \E i \in Slots : FetchStep(i)
    \/ Mounted /\ World
SpecSync == InitSync /\ [][NextSync]_vars

\* A mutation called at any moment after the hook was mounted with the
\* connected address, the syncs the effect started running in the background
MountConnected == ~Mounted /\ AddressEffect(currentAddress)

NextMut ==
    \/ MountConnected
    \/ Mounted /\ ops = 0 /\ Mutate
    \/ \E i \in Slots : ResyncStep(i) \/ MutationStep(i)
    \/ Chain
SpecMut == InitMut /\ [][NextMut]_vars

\* The hook on its own: only the address effect starts syncs, on mount and
\* when the address changes, at any moment, once
NextEffect ==
    \/ Mount
    \/ Mounted /\ ops = 0 /\ \E a \in UserAddrs \cup {""} : AddressEffect(a)
    \/ \E i \in Slots : ResyncStep(i)
SpecEffect == InitPaths /\ [][NextEffect]_vars

-----------------------------------------------------------------------------
(* Sequential use: one call at a time *)

\* The discovery paths called one after the other while the ledger moves; the
\* component was mounted before the wallet connected
Ready == Mounted /\ AllIdle

NextPaths ==
    \/ MountDisconnected
    \/ Ready /\ \E a \in UserAddrs : CallFetchInvoices(a)
    \/ Ready /\ \E a \in UserAddrs : CallFetchUserInvoices(a)
    \/ Ready /\ \E a \in UserAddrs : CallFetchAllUserInvoices(a)
    \/ \E i \in Slots : FetchStep(i)
    \/ Ready /\ World
SpecPaths == InitPaths /\ [][NextPaths]_vars

\* The three syncs called one after the other over a ledger on which account
\* A holds two tokens, one of which may have been burned before the first call
InitBatch == InitWith({7, 21}, {""})
NextBatch ==
    \/ MountDisconnected
    \/ Ready /\ ops = 0 /\ \E id \in FaultIds : LedgerBurn(id)
    \/ Ready /\ \E a \in UserAddrs : CallFetchInvoices(a)
    \/ Ready /\ \E a \in UserAddrs : CallFetchUserInvoices(a)
    \/ Ready /\ \E a \in UserAddrs : CallFetchAllUserInvoices(a)
    \/ \E i \in Slots : FetchStep(i)
SpecBatch == InitBatch /\ [][NextBatch]_vars

\* The discovery paths one after the other over a ledger client whose answers
\* for a token may change between two reads
NextReorg ==
    \/ NextPaths
    \/ Ready /\ \E id \in FaultIds : LedgerReorg(id)
SpecReorg == InitPaths /\ [][NextReorg]_vars

\* The discovery paths and the statistics call, one after the other; while
\* the statistics call awaits its answer the ledger moves and a historical
\* sync may be called
NextStats ==
    \/ NextPaths
    \/ Ready /\ \E a \in UserAddrs : GetUserInvoiceStatistics(a)
    \/ \E i \in Slots : QueryDelivers(i)
    \/ /\ \E i \in Slots : tasks[i].pc = "q:answered"
       /\ World \/ \E a \in UserAddrs : CallFetchAllUserInvoices(a)
SpecStats == InitPaths /\ [][NextStats]_vars

\* The paths of SpecPaths, and the historical queries called between them;
\* while a query awaits its answer the ledger moves and a historical sync may
\* be called
QueryStep ==
    \/ \E id \in DOMAIN tokens : GetHistoricalInvoiceRecord(id)
    \/ \E x \in InvoiceIds : SearchInvoiceById(x)
    \/ \E a \in UserAddrs, o \in Offsets, l \in Limits : GetUserHistoricalRecords(a, o, l)
NextQuery ==
    \/ NextPaths
    \/ Ready /\ QueryStep
    \/ \E i \in Slots : QueryDelivers(i)
    \/ /\ \E i \in Slots : tasks[i].pc = "q:answered"
       /\ World \/ \E a \in UserAddrs : CallFetchAllUserInvoices(a)
SpecQuery == InitPaths /\ [][NextQuery]_vars

\* One mutation, called once the syncs the effect started on mount have settled
NextOnce ==
    \/ Mount
    \/ Ready /\ ops = 0 /\ Mutate
    \/ \E i \in Slots : ResyncStep(i) \/ MutationStep(i)
    \/ Chain
SpecOnce == Init /\ [][NextOnce]_vars

\* waitForTransactionReceipt({ hash }) is called without a timeout (lines 497,
\* 531, 549, 650): whether the client gives up on a transaction that stays
\* pending is left to the client library, so it may or may not happen
ReceiptTimeout(i) ==
    /\ tasks[i].pc = "wait"
    /\ txs[tasks[i].tx].status = "pending"
    /\ rejected' = "receipt timeout"
    /\ MutationThrows(i, tasks[i], Hook, rejected')
    /\ UNCHANGED <<ops, faults>>
    /\ LedgerUnchanged /\ ConfigUnchanged

\* The syncs of the mount, then mutations one after the other until one has
\* submitted its transaction, which the ledger includes (applying or reverting
\* it) or drops at any moment from then on; a token may have been burned before
\* the mutation is called
NextSeq ==
    \/ Mount
    \/ Ready /\ txs = <<>> /\ \E id \in FaultIds : LedgerBurn(id)
    \/ Ready /\ txs = <<>> /\ Mutate
    \/ \E i \in Slots : ResyncStep(i) \/ MutationStep(i)
    \/ \E i \in Slots : ReceiptTimeout(i)
    \/ Chain
SpecSeq == InitSmall /\ [][NextSeq]_vars

\* Sequential use under the event loop's scheduling: a callback whose awaited
\* promise has settled is resumed; the ledger and the client's timer are under
\* no obligation
SpecLive ==
    /\ InitSmall /\ [][NextSeq]_vars
    /\ \A i \in Slots : WF_vars(ResyncStep(i) \/ MutationStep(i))

\* The caller runs the sync that has just settled once more, with the same
\* argument; the ledger calls of a run may fail as they might in the first
Rerun ==
    /\ AllIdle /\ ops = 1
    /\ returned.op \in {"fetchInvoices", "fetchUserInvoices", "fetchAllUserInvoices"}
    /\ ops < MaxOps
    /\ ops' = ops + 1
    /\ faults' = 0
    /\ LET t == [Idle EXCEPT !.op = returned.op] IN
       CASE returned.op = "fetchInvoices" ->
              /\ tasks' = [tasks EXCEPT ![1] = EnterFetchInvoices(t, returned.user, "done")]
              /\ UNCHANGED <<isLoading, error>>
         [] returned.op = "fetchUserInvoices" ->
              /\ tasks' = [tasks EXCEPT ![1] = EnterFetchUserInvoices(t, returned.user, "done")]
              /\ isLoading' = TRUE
              /\ error' = NoError
         [] returned.op = "fetchAllUserInvoices" ->
              /\ tasks' = [tasks EXCEPT ![1] =
                                EnterFetchAllUserInvoices(t, returned.user, "done")]
              /\ isLoading' = TRUE
              /\ UNCHANGED error
    /\ UNCHANGED <<invoices, userInvoices, returned>>
    /\ LedgerUnchanged /\ ConfigUnchanged /\ ClientUnchanged

\* A step of the second run whose ledger calls end as those of the first did
SameOutcomes(i) ==
    (ops >= 2 /\ tasks'[i].op = "idle") => returned'.outcomes = returned.outcomes

\* One sync, then the same sync again against the unchanged ledger
NextRerun ==
    \/ Mount
    \/ Ready /\ ops = 0 /\ World
    \/ Ready /\ ops = 0 /\ \E a \in UserAddrs : CallFetchInvoices(a)
    \/ Ready /\ ops = 0 /\ \E a \in UserAddrs : CallFetchUserInvoices(a)
    \/ Ready /\ ops = 0 /\ \E a \in UserAddrs : CallFetchAllUserInvoices(a)
    \/ Rerun
    \/ \E i \in Slots : FetchStep(i) /\ SameOutcomes(i)
SpecRerun == InitSync /\ [][NextRerun]_vars

-----------------------------------------------------------------------------
(* The result of a whole loop on one ledger state, for comparison *)

\* What the event loop gives when the ledger does not move while it runs
RECURSIVE EventLoop(_, _)
EventLoop(logs, failed) ==
    IF logs = <<>> THEN <<>>
    ELSE EventRead(Head(logs), failed) \o EventLoop(Tail(logs), failed)

\* What the fallback loop gives when the ledger does not move while it runs
RECURSIVE FallbackLoop(_, _, _, _)
FallbackLoop(tokenId, last, userAddress, failed) ==
    IF tokenId > last THEN <<>>
    ELSE FallbackRead(tokenId, userAddress, failed)
           \o FallbackLoop(tokenId + 1, last, userAddress, failed)

\* What the scan (the owner-filtered getLogs, the event loop and the direct
\* read of token 7) gives on one ledger state
userInvoicePromises(userAddress, failedEvents, failedDirect) ==
    DirectCheck(EventLoop(getLogs(fromBlockOf(latestBlock), Some(userAddress)),
                          failedEvents),
                userAddress, failedDirect)

-----------------------------------------------------------------------------
(* Reading the cache *)

Ids(list) == {list[k].id : k \in 1..Len(list)}
Entries(list, id) == {list[k] : k \in {j \in 1..Len(list) : list[j].id = id}}
Caches == <<invoices, userInvoices>>

\* The mutation tasks that have not yet seen awaitFinal report success
PreFinalPcs == {"simulate", "write", "send", "execute", "executed", "wait"}

\* The token a mutation task's transaction acted on, once the ledger applied it
Applied(t) == t.tx # 0 /\ txs[t.tx].applied
EffectId(t) == ToString(txs[t.tx].tokenId)

NoFailedRead(t) == \A k \in 1..Len(t.outcomes) : t.outcomes[k].failed = {}
NoFailedCall(t) == NoFailedRead(t) /\ \A k \in 1..Len(t.outcomes) : ~t.outcomes[k].threw

-----------------------------------------------------------------------------
(* C1: monotonic flags.  Once invoices or userInvoices holds an entity with
   isVerified (or isBurned) true, no later write of that list holds the same
   tokenId with the flag false - in particular not when a sync that read the
   flag as false completes after one that read it as true. *)
FlagKept(list, listNext) ==
    \A e \in {list[k] : k \in 1..Len(list)} :
    \A f \in Entries(listNext, e.id) :
        /\ e.isVerified => f.isVerified
        /\ Truthy(e.isBurned) => Truthy(f.isBurned)

C1_FlagsNeverReset ==
    [][FlagKept(invoices, invoices') /\ FlagKept(userInvoices, userInvoices')]_vars

(* C2: no premature visibility.  While a mint or verify has not yet seen
   awaitFinal report success, neither list shows its effect: the minted
   entity, or isVerified = true for the token it verifies. *)
EffectVisible(t, list) ==
    \E e \in Entries(list, EffectId(t)) : t.op = "verify" => e.isVerified

C2_NoPrematureVisibility ==
    \A i \in Slots :
        (/\ tasks[i].op \in {"mint", "verify"}
         /\ tasks[i].pc \in PreFinalPcs
         /\ Applied(tasks[i]))
        => ~EffectVisible(tasks[i], invoices) /\ ~EffectVisible(tasks[i], userInvoices)

(* C3: fallback enumeration is complete up to maxProbe.  When fetchInvoices
   has read its ids without a failed point read, its result holds every
   ledger entity whose tokenId is in 1..maxProbe, maxProbe being
   max(totalSupply + 5, 20) (20 when totalSupply is unavailable). *)
C3_EnumerationComplete ==
    \A i \in Slots :
        (tasks[i].pc = "fi:commit" /\ NoFailedRead(tasks[i]))
        => \A id \in 1..tasks[i].maxCheck :
             Alive(id) => ToString(id) \in Ids(tasks[i].acc)

(* C4: degraded sync equals working sync.  When the mint-event range query
   threw and the fallback's point reads succeeded, the token ids
   fetchUserInvoices leaves in userInvoices are those the event scan gives on
   the same ledger state. *)
C4_FallbackEqualsScan ==
    \A i \in Slots :
        (tasks[i].pc = "fu:fallbackCommit" /\ NoFailedRead(tasks[i]))
        => Ids(fetchUserInvoicesFallbackResult(tasks[i], Hook).userInvoices)
             = Ids(userInvoicePromises(tasks[i].user, {}, {}))

(* C5: verify, then read.  When verifyInvoice(tokenId) resolves (here: on the
   external-wallet path, no ledger call of its resync having failed), invoices
   holds tokenId with isVerified = true and its immutable fields as the ledger
   recorded them, and userInvoices holds no entry of tokenId that is not
   verified. *)
\* The resync of task i ran after finality and none of its ledger calls failed
CleanResync(i) ==
    /\ NoFailedCall(returned')
    /\ txs[tasks[i].tx].status = "mined"
    /\ ~isPrivy

VerifyResolves(i) ==
    tasks[i].op = "verify" /\ tasks'[i].op = "idle" /\ returned'.ok /\ CleanResync(i)

C5_VerifiedAfterVerify ==
    [][\A i \in Slots : VerifyResolves(i) =>
         /\ \E e \in Entries(invoices', tasks[i].tokenId) :
              /\ e.isVerified
              /\ LET d == RawInvoice(tokens[BigInt(tasks[i].tokenId)]) IN
                 /\ e.supplier = d.supplier /\ e.buyer = d.buyer
                 /\ e.creditAmount = ToString(d.creditAmount)
                 /\ e.dueDate = ToDate(d.dueDate) /\ e.ipfsHash = d.ipfsHash
         /\ \A e \in Entries(userInvoices', tasks[i].tokenId) : e.isVerified]_vars

(* C6: mint, then read.  When mintInvoiceNFT resolves (here: on the
   external-wallet path, which awaits the receipt, no ledger call of its resync
   having failed), the cache (invoices or
   userInvoices) holds the minted entity under its ledger-assigned tokenId,
   with isVerified = false and the supplier, 6-decimal creditAmount and
   dueDate of the request. *)
MintResolves(i) ==
    tasks[i].op = "mint" /\ tasks'[i].op = "idle" /\ returned'.ok /\ CleanResync(i)

MintedEntityIn(list, t) ==
    /\ txs[t.tx].status = "mined"
    /\ \E e \in Entries(list, EffectId(t)) :
         /\ ~e.isVerified
         /\ e.supplier = t.mint.supplier
         /\ e.creditAmount = ToString(parseAmount(t.mint.amount, AMOUNT_DECIMALS))
         /\ e.dueDate = ToDate(dueDateTimestamp(t.mint.dueDate))

C6_MintedAfterMint ==
    [][\A i \in Slots : MintResolves(i) =>
         MintedEntityIn(invoices', tasks[i]) \/ MintedEntityIn(userInvoices', tasks[i])]_vars

(* C7: no silent drops.  A tokenId that is in invoices (in userInvoices) is
   still in that list after every later step, whatever the later syncs read. *)
C7_NeverDropped ==
    [][Ids(invoices) \subseteq Ids(invoices') /\ Ids(userInvoices) \subseteq Ids(userInvoices')]_vars

(* C8: idempotent sync.  When a sync (fetchInvoices, fetchUserInvoices or
   fetchAllUserInvoices) that is run a second time in sequence, against the
   unchanged ledger and with the same outcomes of its ledger calls, settles,
   invoices and userInvoices are what the first run left. *)
SecondRunSettles(i) ==
    ops >= 2 /\ tasks[i].op # "idle" /\ tasks'[i].op = "idle"

C8_SyncIdempotent ==
    [][\A i \in Slots : SecondRunSettles(i) =>
         invoices' = invoices /\ userInvoices' = userInvoices]_vars

\* a second run has settled on a non-empty owner view, a point read having failed
C8_Witness ==
    /\ ops = 2 /\ AllIdle
    /\ returned.op = "fetchUserInvoices"
    /\ userInvoices # <<>>
    /\ \E k \in 1..Len(returned.outcomes) : returned.outcomes[k].failed # {}

(* C9: immutable fields agree across discovery paths.  Any two cached
   entries of one tokenId - in invoices (enumeration) or in userInvoices
   (event scan, fallback or historical resolution), burned tokens included -
   have the same creditAmount, dueDate, supplier and buyer. *)
Cached == {invoices[k] : k \in 1..Len(invoices)}
          \cup {userInvoices[k] : k \in 1..Len(userInvoices)}

C9_ImmutableFieldsAgree ==
    \A e \in Cached : \A f \in Cached :
        e.id = f.id =>
            /\ e.creditAmount = f.creditAmount
            /\ e.dueDate = f.dueDate
            /\ e.supplier = f.supplier
            /\ e.buyer = f.buyer

\* a burned token held by enumeration (from before the burn) and by
\* historical resolution at once
C9_Witness ==
    \E k \in 1..Len(invoices) : \E j \in 1..Len(userInvoices) :
        /\ invoices[k].id = userInvoices[j].id
        /\ Truthy(userInvoices[j].isBurned)
        /\ invoices[k].isBurned = Undefined

(* C10: validation before the ledger.  A mint request whose amount is not
   positive, whose due date is not in the future or whose invoice id is
   missing issues no simulate call and no write submission, and ends in an
   error. *)
InvalidMint(m) == m.amount <= 0 \/ m.dueDate <= Now \/ m.uniqueId = ""

C10_InvalidMintNeverReachesLedger ==
    /\ \A i \in Slots :
         (tasks[i].op = "mint" /\ InvalidMint(tasks[i].mint))
         => tasks[i].sims = 0 /\ tasks[i].writes = 0
    /\ (returned.op = "mint" /\ InvalidMint(returned.mint))
         => ~returned.ok /\ returned.sims = 0 /\ returned.writes = 0

(* C11: a failed mutation leaves the cache alone.  When the submission or the
   finality wait of a mint, verify or approve fails (the wallet rejects the
   submission, the wait rejects for a dropped transaction, or the wait gives
   up on a pending one), the call throws what the ledger client rejected
   with, the hook's error is that same value, and invoices and userInvoices
   are what they were when the mutation started: no step taken while the
   mutation is in flight before finality, the failing one included, changes
   either list. *)
MutationOps == {"mint", "verify", "approve"}
SubmitPcs == {"write", "execute", "send"}
AwaitPcs == {"wait", "executed"}

FailsAtLedger(i) ==
    /\ tasks[i].op \in MutationOps /\ tasks[i].pc \in SubmitPcs \cup AwaitPcs
    /\ tasks'[i].op = "idle" /\ ~returned'.ok

InFlightBeforeFinality(i) ==
    /\ tasks[i].op \in MutationOps /\ tasks[i].pc \in PreFinalPcs
    /\ tasks'[i].pc \in PreFinalPcs \/ (tasks'[i].op = "idle" /\ ~returned'.ok)

LedgerConfirmed(e) ==
    LET id == BigInt(e.id) IN
    /\ Exists(id)
    /\ e.invoiceId = tokens[id].invoiceId
    /\ e.supplier = tokens[id].supplier
    /\ e.buyer = tokens[id].buyer
    /\ e.creditAmount = ToString(tokens[id].creditAmount)
    /\ e.dueDate = ToDate(tokens[id].dueDate)
    /\ e.ipfsHash = tokens[id].ipfsHash
    /\ e.isVerified => tokens[id].isVerified
    /\ Truthy(e.isBurned) => tokens[id].isBurned

C12_CacheIsLedgerConfirmed == \A e \in Cached : LedgerConfirmed(e)

\* a verify has resolved and the cache shows its token verified
C12_Witness ==
    /\ returned.op = "verify" /\ returned.ok
    /\ \E e \in Entries(invoices, returned.tokenId) : e.isVerified

(* C13: completion order does not matter.  When two syncs running
   concurrently for the same address, none of whose ledger calls failed, are
   both about to write their result to the same list, writing them in either
   order leaves the same cache (same tokenIds, same isVerified and isBurned),
   and that cache holds every entity either of them discovered. *)
CommitPcs == {"fi:commit", "fu:allLogs", "fu:fallbackCommit", "fa:commit"}

\* The hook after task t has written its result
CommitResult(t, h) ==
    CASE t.pc = "fi:commit" -> fetchInvoicesResult(t, h)
      [] t.pc = "fu:allLogs" -> fetchUserInvoicesResult(t, h, FALSE)
      [] t.pc = "fu:fallbackCommit" -> fetchUserInvoicesFallbackResult(t, h)
      [] t.pc = "fa:commit" -> fetchAllUserInvoicesResult(t, h)

WritesInvoices(t) == t.pc = "fi:commit"

View(list) ==
    {<<list[k].id, list[k].isVerified, Truthy(list[k].isBurned)>> : k \in 1..Len(list)}

C13_CompletionOrderIrrelevant ==
    \A i \in Slots : \A j \in Slots \ {i} :
        (tasks[i].pc \in CommitPcs /\ tasks[j].pc \in CommitPcs
         /\ NoFailedCall(tasks[i]) /\ NoFailedCall(tasks[j])
         /\ tasks[i].user = tasks[j].user
         /\ WritesInvoices(tasks[i]) = WritesInvoices(tasks[j]))
        => LET ij == CommitResult(tasks[j], CommitResult(tasks[i], Hook))
               ji == CommitResult(tasks[i], CommitResult(tasks[j], Hook))
               found == Ids(tasks[i].acc) \cup Ids(tasks[j].acc)
           IN  /\ View(ij.invoices) = View(ji.invoices)
               /\ View(ij.userInvoices) = View(ji.userInvoices)
               /\ found \subseteq Ids(IF WritesInvoices(tasks[i])
                                      THEN ij.invoices ELSE ij.userInvoices)

(* C14: conflicting reads raise an error.  When a step stores an entry whose
   supplier, buyer, creditAmount, dueDate or ipfsHash differs from that of a
   cached entry of the same tokenId, the hook's error becomes the
   "inconsistent entity" error. *)
InconsistentEntity == "inconsistent entity"

Conflict(e, f) ==
    /\ e.id = f.id
    /\ \/ e.supplier # f.supplier
       \/ e.buyer # f.buyer
       \/ e.creditAmount # f.creditAmount
       \/ e.dueDate # f.dueDate
       \/ e.ipfsHash # f.ipfsHash

C14_ConflictRaisesError ==
    [][(\E e \in Cached \cup Cached' : \E f \in Cached' : Conflict(e, f))
         => error' = InconsistentEntity]_vars

(* C15: no conflicting duplicates.  In every state, any two cached entries
   of one tokenId - two of invoices, two of userInvoices, or one of each -
   have the same invoiceId, supplier, buyer, creditAmount, dueDate and
   ipfsHash. *)
CacheSlots == {<<c, k>> : c \in {1}, k \in 1..Len(invoices)}
              \cup {<<c, k>> : c \in {2}, k \in 1..Len(userInvoices)}
EntryAt(s) == Caches[s[1]][s[2]]

C15_NoConflictingDuplicates ==
    \A s \in CacheSlots : \A t \in CacheSlots \ {s} :
        EntryAt(s).id = EntryAt(t).id
        => /\ EntryAt(s).invoiceId = EntryAt(t).invoiceId
           /\ ~Conflict(EntryAt(s), EntryAt(t))

\* one token held by enumeration in invoices and by the fallback of
\* fetchUserInvoices in userInvoices
C15_Witness ==
    /\ AllIdle
    /\ returned.op = "fetchUserInvoices"
    /\ Len(returned.outcomes) > 0 /\ returned.outcomes[1].threw
    /\ Ids(invoices) \cap Ids(userInvoices) # {}

(* C16: no automatic retry.  Every invocation of mint, verify or approve
   issues at most one write submission, whether the submission is rejected,
   the transaction fails or the resync that follows runs; the ledger client
   has received no more submissions than the invocations made. *)
C16_AtMostOneSubmission ==
    /\ \A i \in Slots : tasks[i].writes <= 1
    /\ returned.writes <= 1
    /\ Len(txs) <= ops

\* a mutation whose one submission was rejected has thrown
C16_Witness ==
    /\ returned.op \in MutationOps /\ ~returned.ok
    /\ returned.err = "submission rejected"
    /\ returned.writes = 1

(* C17: statistics are derived from the cache.  The statistics returned for
   an owner (by a call none of whose reads failed) are those derived from the owner's cached entities: totalMinted
   their number, totalBurned the number with isBurned, totalActive the
   difference, totalCreditAmount the sum of their creditAmount. *)
OwnerCached(owner) ==
    {e \in Cached : toLowerCase(e.supplier) = toLowerCase(owner)}
OwnerCachedIds(owner) == {e.id : e \in OwnerCached(owner)}

\* Number(creditAmount) of a cached decimal string
AmountOf(str) ==
    CHOOSE n \in {parseAmount(100, AMOUNT_DECIMALS), parseAmount(250, AMOUNT_DECIMALS)} :
        ToString(n) = str

CacheStatistics(owner) ==
    LET ids == OwnerCachedIds(owner)
        burned == {e.id : e \in {x \in OwnerCached(owner) : Truthy(x.isBurned)}}
        amount == [id \in ids |->
                     AmountOf((CHOOSE e \in OwnerCached(owner) : e.id = id).creditAmount)]
    IN  [totalMinted |-> Cardinality(ids),
         totalBurned |-> Cardinality(burned),
         totalActive |-> Cardinality(ids) - Cardinality(burned),
         totalCreditAmount |-> SumOver(ids, amount)]

QueryReturns(i) == tasks[i].pc = "q:answered" /\ tasks'[i].op = "idle"

C17_StatsDerivedFromCache ==
    [][\A i \in Slots :
         (/\ QueryReturns(i) /\ returned'.op = "getUserInvoiceStatistics"
          /\ ~returned'.outcomes[1].threw)
           => returned'.value = Some(CacheStatistics(returned'.user))]_vars

(* C18: resync after finality, before returning.  On every submission path a
   mint, verify or approve issues the ledger reads of its resync only once
   its own transaction is final (mined), and it resolves only after a resync
   has read the ledger. *)
\* the positions at which fetchInvoices and fetchUserInvoices await a ledger read
ResyncReadPcs == {"fi:supply", "fi:reads", "fu:block", "fu:logs", "fu:scan", "fu:direct",
                  "fu:allLogs", "fu:fallback"}

IssuesResyncRead(i) ==
    /\ tasks[i].op \in MutationOps /\ tasks[i].pc \in ResyncReadPcs
    /\ tasks'[i] # tasks[i]

Resolves(i) ==
    tasks[i].op \in MutationOps /\ tasks'[i].op = "idle" /\ returned'.ok

C18_ResyncAfterFinality ==
    [][\A i \in Slots :
         /\ IssuesResyncRead(i) => txs[tasks[i].tx].status = "mined"
         /\ Resolves(i) => returned'.outcomes # <<>>]_vars

(* C19: one bad id does not abort the batch.  When the point read of one id
   fails in the loop of an enumeration (fetchInvoices), of an event scan
   (fetchUserInvoices) or of a historical listing (fetchAllUserInvoices), the
   call goes on: that step returns nothing to the caller and leaves the
   hook's error alone.  When such a sync, none of whose range, count or
   listing calls threw, settles, it resolves, the hook's error is null or
   what it was, and the list it wrote holds every id of its batch whose point
   read succeeded: the live ids 1..20 for fetchInvoices, the owner's mint
   events in the window for fetchUserInvoices, the owner's minted tokens for
   fetchAllUserInvoices - whichever point reads of other ids failed. *)
FailedReads(t) == UNION {t.outcomes[k].failed : k \in 1..Len(t.outcomes)}
NoThrow(t) == \A k \in 1..Len(t.outcomes) : ~t.outcomes[k].threw
\* The failed reads of the event loop of a fetchUserInvoices whose
\* owner-filtered getLogs answered; the direct read of token 7 fails or
\* answers on its own
FailedEventReads(t) == t.outcomes[1].failed
FailedBatchReads(t) ==
    IF t.op = "fetchUserInvoices" THEN FailedEventReads(t) ELSE FailedReads(t)

BatchIds(t) ==
    CASE t.op = "fetchInvoices" -> {id \in 1..PROBE_LIMIT : Alive(id)}
      [] t.op = "fetchUserInvoices" ->
           {id \in DOMAIN tokens :
              /\ Alive(id)
              /\ \E k \in 1..Len(getLogs(fromBlockOf(latestBlock), Some(t.user))) :
                    getLogs(fromBlockOf(latestBlock), Some(t.user))[k] = id}
      [] t.op = "fetchAllUserInvoices" ->
           {id \in DOMAIN tokens :
              \E k \in 1..Len(getUserMintedTokens(t.user)) :
                    getUserMintedTokens(t.user)[k] = id}

BatchOps == {"fetchInvoices", "fetchUserInvoices", "fetchAllUserInvoices"}
BatchPcs == {"fi:reads", "fu:scan", "fa:reads"}

\* a point read of a batch fails in this step
PointReadFails(i) ==
    /\ tasks[i].op \in BatchOps /\ tasks[i].pc \in BatchPcs
    /\ faults' > faults

SyncSettles(i) ==
    /\ tasks[i].op \in BatchOps
    /\ tasks'[i].op = "idle"
    /\ NoThrow(returned')

C19_BadIdDoesNotAbortBatch ==
    [][\A i \in Slots :
         /\ PointReadFails(i) =>
              /\ tasks'[i].op = tasks[i].op
              /\ returned' = returned /\ error' = error
         /\ SyncSettles(i) =>
              /\ returned'.ok /\ error' \in {NoError, error}
              /\ {ToString(id) : id \in BatchIds(tasks[i]) \ FailedBatchReads(returned')}
                   \subseteq Ids(IF tasks[i].op = "fetchInvoices" THEN invoices'
                                 ELSE userInvoices')]_vars

\* an event scan over two mint events of the owner has settled: the read of
\* one of the two ids failed, the other id is in the list it wrote
C19_Witness ==
    /\ AllIdle
    /\ returned.op = "fetchUserInvoices" /\ NoThrow(returned)
    /\ \E bad \in FailedEventReads(returned) :
         /\ Alive(bad) /\ ToString(bad) \notin Ids(userInvoices)
         /\ \E id \in BatchIds(returned) \ {bad} : ToString(id) \in Ids(userInvoices)

\* the same for a historical listing of two minted tokens
C19_HistoricalCase ==
    /\ AllIdle
    /\ returned.op = "fetchAllUserInvoices" /\ NoThrow(returned)
    /\ \E bad \in FailedReads(returned) :
         /\ ToString(bad) \notin Ids(userInvoices)
         /\ \E id \in BatchIds(returned) \ {bad} : ToString(id) \in Ids(userInvoices)

\* the same for an enumeration of the ids 1..20
C19_EnumerationCase ==
    /\ AllIdle
    /\ returned.op = "fetchInvoices" /\ NoThrow(returned)
    /\ \E bad \in FailedReads(returned) :
         /\ Alive(bad) /\ ToString(bad) \notin Ids(invoices)
         /\ \E id \in BatchIds(returned) \ {bad} : ToString(id) \in Ids(invoices)

(* C20: a throwing range query degrades to enumeration.  When a
   fetchUserInvoices call in which a mint-event range query threw settles, it
   has not thrown, and userInvoices is what the fallback enumeration of ids
   1..20 gives for the owner (short of the ids whose point read failed). *)
RangeQueryThrew(t) == \E k \in 1..Len(t.outcomes) : t.outcomes[k].threw

C20_RangeFailureFallsBack ==
    [][\A i \in Slots :
         (/\ tasks[i].op = "fetchUserInvoices" /\ tasks'[i].op = "idle"
          /\ RangeQueryThrew(returned'))
         => /\ returned'.ok
            /\ Ids(FallbackLoop(1, FALLBACK_LIMIT, tasks[i].user, FailedReads(returned')))
                 \subseteq Ids(userInvoices')
            /\ Ids(userInvoices')
                 \subseteq Ids(FallbackLoop(1, FALLBACK_LIMIT, tasks[i].user, {}))]_vars

(* C21: the event scan returns the window's events and nothing else.  The
   result of the scan of fetchUserInvoices for an owner is exactly the tokens
   named by the owner's mint events in blocks max(0, latestBlock - 1000) ..
   latestBlock whose point read succeeded, and the lower bound of the range is
   never negative. *)
WindowEventIds(owner) ==
    LET logs == getLogs(fromBlockOf(latestBlock), Some(owner))
    IN  {logs[k] : k \in 1..Len(logs)}

C21_ScanIsWindowEvents ==
    /\ fromBlockOf(latestBlock) >= 0
    /\ \A i \in Slots :
         (tasks[i].op = "fetchUserInvoices" /\ tasks[i].pc = "fu:allLogs")
         => Ids(tasks[i].acc)
              = {ToString(id) : id \in {x \in WindowEventIds(tasks[i].user) :
                                          Alive(x) /\ x \notin FailedEventReads(tasks[i])}}

(* C22: historical resolution is exact.  When fetchAllUserInvoices settles,
   none of its ledger calls having failed, userInvoices holds exactly one
   entry for each tokenId the owner ever minted, burned tokens included, in
   the order of the listing, each with the isVerified, isBurned, burnTime and
   burnReason of the ledger's historical record. *)
HistoricalSettles(i) ==
    /\ tasks[i].op = "fetchAllUserInvoices" /\ tasks'[i].op = "idle"
    /\ NoFailedCall(returned')

MatchesHistorical(e, r) ==
    /\ e.isVerified = r.isVerified
    /\ e.isBurned = Some(r.isBurned)
    /\ e.burnTime = (IF r.burnTime # 0 THEN Some(ToDate(r.burnTime)) ELSE Undefined)
    /\ e.burnReason = Some(r.burnReason)

C22_HistoricalViewExact ==
    [][\A i \in Slots : HistoricalSettles(i) =>
         LET ids == getUserMintedTokens(tasks[i].user) IN
         /\ Len(userInvoices') = Len(ids)
         /\ \A k \in 1..Len(ids) :
              /\ userInvoices'[k].id = ToString(ids[k])
              /\ MatchesHistorical(userInvoices'[k], getHistoricalInvoiceRecord(ids[k]))]_vars

\* the historical view of an owner holds a burned token
C22_Witness ==
    /\ AllIdle
    /\ returned.op = "fetchAllUserInvoices" /\ NoFailedCall(returned)
    /\ \E k \in 1..Len(userInvoices) :
         Truthy(userInvoices[k].isBurned) /\ userInvoices[k].burnTime # Undefined

(* C23: historical reads are merged into the cache.  When
   getHistoricalInvoiceRecord or getUserHistoricalRecords hands records to its
   caller, every returned record is present in the cache (invoices or
   userInvoices) with isVerified, isBurned, burnTime and burnReason as
   returned. *)
ReturnedRecords(r) ==
    CASE r.op = "getHistoricalInvoiceRecord" /\ r.value # Undefined -> {r.value[1]}
      [] r.op = "getUserHistoricalRecords" ->
           {r.value[1][k] : k \in 1..Len(r.value[1])}
      [] OTHER -> {}

InCache(rec, lists) ==
    \E c \in 1..2 : \E e \in Entries(lists[c], ToString(rec.tokenId)) :
        MatchesHistorical(e, rec)

C23_HistoricalReadsMerged ==
    [][\A i \in Slots : QueryReturns(i)
         => \A rec \in ReturnedRecords(returned') : InCache(rec, <<invoices', userInvoices'>>)]_vars

(* C25: search falls back to the cache.  When the ledger's search call
   throws, searchInvoiceById(businessId) returns the cached entity whose
   invoiceId is businessId if the cache holds one, and null only if no cached
   entity matches. *)
CachedByInvoiceId(x) ==
    {e \in UNION {{Caches[c][k] : k \in 1..Len(Caches[c])} : c \in 1..2} : e.invoiceId = x}

SearchThrew(r) == r.op = "searchInvoiceById" /\ r.outcomes[1].threw

C25_SearchFallsBackToCache ==
    [][\A i \in Slots : (QueryReturns(i) /\ SearchThrew(returned'))
         => IF CachedByInvoiceId(returned'.tokenId) = {}
            THEN returned'.value = Undefined
            ELSE /\ returned'.value # Undefined
                 /\ returned'.value[1] \in CachedByInvoiceId(returned'.tokenId)]_vars

(* C24: mutations terminate.  Every mutation that has submitted its
   transaction and awaits finality eventually returns or throws, even if the
   ledger never reports finality. *)
C24_PendingMutationSettles ==
    \A i \in Slots : (tasks[i].pc = "wait") ~> (tasks[i].op = "idle")

(* C26: an empty result is not an error.  When fetchInvoices or
   fetchUserInvoices settles, every one of its ledger calls having succeeded
   and the ledger holding nothing for it to find, the list it writes is empty
   and error is null. *)
NothingToFind(t) ==
    CASE t.op = "fetchInvoices" -> \A id \in 1..PROBE_LIMIT : ~Alive(id)
      [] t.op = "fetchUserInvoices" ->
           \A id \in DOMAIN tokens :
               Alive(id) => toLowerCase(tokens[id].supplier) # toLowerCase(t.user)
      [] OTHER -> FALSE

EmptySyncSettles(i) ==
    /\ tasks[i].op \in {"fetchInvoices", "fetchUserInvoices"}
    /\ tasks'[i].op = "idle"
    /\ NoFailedCall(returned')
    /\ NothingToFind(tasks[i])

C26_EmptyIsNotAnError ==
    [][\A i \in Slots : EmptySyncSettles(i) =>
         /\ error' = NoError
         /\ tasks[i].op = "fetchInvoices" => invoices' = <<>>
         /\ tasks[i].op = "fetchUserInvoices" => userInvoices' = <<>>]_vars

\* fetchInvoices has settled on a ledger without tokens, after an earlier call
C26_Witness ==
    /\ AllIdle /\ ops = MaxOps
    /\ returned.op = "fetchInvoices" /\ NoFailedCall(returned)
    /\ \A id \in 1..PROBE_LIMIT : ~Alive(id)
    /\ invoices = <<>> /\ error = NoError

(* C27: the owner's view follows the address.  Once every sync the address
   effect started has completed, userInvoices holds only entities whose
   supplier is the hook's current address: a sync started for the previous
   address that completes late does not overwrite the view.  Stated for runs
   in which no ledger call failed. *)
C27_ViewFollowsAddress ==
    (address \in UserAddrs /\ faults = 0 /\ \A i \in Slots : tasks[i].op = "idle")
    => \A k \in 1..Len(userInvoices) :
         toLowerCase(userInvoices[k].supplier) = toLowerCase(address)

(* C28: the scan's result survives the second range query.  When the
   owner-filtered range query and every per-event read of fetchUserInvoices
   succeeded, the entities the scan materialized are stored in userInvoices
   when the call goes on past the unfiltered range query, whether that query
   succeeds or throws. *)
LeavesAllLogs(i) == tasks[i].pc = "fu:allLogs" /\ tasks'[i].pc # "fu:allLogs"

C28_ScanResultStored ==
    [][\A i \in Slots : (LeavesAllLogs(i) /\ NoFailedCall(tasks[i]))
         => userInvoices' = tasks[i].acc]_vars

(* C29: a failure of the owner sync stays visible.  In the sync the address
   effect starts, when fetchUserInvoices has ended in failure and set error,
   error is still non-null once fetchInvoices has completed too, whichever of
   the two completes last. *)
OthersIdle(i) == \A j \in Slots \ {i} : tasks[j].op = "idle"

FetchInvoicesCompletesLast(i) ==
    /\ tasks[i].pc = "fi:commit" /\ tasks'[i].op = "idle"
    /\ OthersIdle(i)

C29_SyncFailureStaysVisible ==
    [][\A i \in Slots :
         (FetchInvoicesCompletesLast(i) /\ ops = 0 /\ error # NoError)
         => error' # NoError]_vars

(* C30: isLoading covers mutations.  isLoading is true in every state in
   which a mint, verify or approve call has started and has neither returned
   nor thrown; in particular it is still true after a sync that runs
   concurrently (fetchUserInvoices, fetchAllUserInvoices) has completed. *)
SyncOps == {"fetchUserInvoices", "fetchAllUserInvoices"}

SyncCompletesDuringMutation(i, j) ==
    /\ tasks[i].op \in SyncOps /\ tasks'[i].op = "idle"
    /\ tasks[j].op \in MutationOps /\ tasks'[j] = tasks[j]

C30_LoadingWhileMutating ==
    [][\A i, j \in Slots : SyncCompletesDuringMutation(i, j) => isLoading']_vars

====
